---- MODULE Spec2Model ----
(***************************************************************************)
(* A model of the Maisa Worker n8n node: the three revisions of the node   *)
(* kept in the repository,                                                 *)
(*   "node"   : src/nodes/MaisaWorker/MaisaWorker.node.ts (class methods), *)
(*   "legacy" : src/unnamed/part_001 lines 1-565 (free functions,          *)
(*              result-based poller, URL normalisation),                   *)
(*   "stream" : src/unnamed/part_001 lines 567-1014 (status-based poller,  *)
(*              two output streams).                                       *)
(* Time is the wall clock Date.now() in milliseconds.  A URL is a sequence *)
(* of one-character strings (an execution id or a file name is one opaque  *)
(* element of it).  A JSON value is a tagged tuple: <<"null">>,            *)
(* <<"str", s>>, <<"arr", seq>>; an object is a function from its field    *)
(* names; a missing field is a name outside the DOMAIN.                    *)
(***************************************************************************)
EXTENDS Integers, Sequences, FiniteSets, TLC

VARIABLES
    \* ---- the node under execution and its host-supplied inputs
    variant,            \* which revision of the node runs
    operation,          \* getNodeParameter('operation', 0)
    continueOnFail,     \* this.continueOnFail()
    nItems,             \* items.length
    pollingInterval,    \* getNodeParameter('pollingInterval', ..), seconds
    timeout,            \* getNodeParameter('timeout', ..), seconds
    autoDownloadFiles,  \* getNodeParameter('autoDownloadFiles', ..)
    \* ---- execute(): locals of the item loop
    pc,                 \* control position
    i,                  \* loop index
    executionId,        \* result.data of the current item
    startTime,          \* Date.now() taken when the poll loop is entered
    status,             \* the last status response body
    finalResult,        \* the payload the poller returned
    outFiles,           \* filesData.out || []
    downloadedFiles,    \* files downloaded so far for the current item
    err,                \* the exception in flight / the run's error
    returnData,         \* returnData (node, legacy), finalOutput (stream)
    stepsOutput,        \* stepsOutput (stream)
    \* ---- the world outside
    now,                \* Date.now()
    requests,           \* every HTTP request issued, in order
    submitted,          \* executions the remote service has created
    lastQueryMs,        \* how long the last status query took
    history,            \* the items finished so far, each with its error
    \* ---- endpoint resolution on its own
    uRoot, uId, uFile, uVariant, resolved,
    \* ---- getMimeType on its own
    mFileName,          \* the fileName argument
    mResult             \* what getMimeType returned, "" before the call

pipeVars == <<variant, operation, continueOnFail, nItems, pollingInterval,
              timeout, autoDownloadFiles, pc, i, executionId, startTime,
              status, finalResult, outFiles, downloadedFiles, err,
              returnData, stepsOutput, now, requests, submitted,
              lastQueryMs, history>>
urlVars == <<uRoot, uId, uFile, uVariant, resolved>>
mimeVars == <<mFileName, mResult>>
vars == <<pipeVars, urlVars, mimeVars>>

(***************************************************************************)
(* Bounds of the model.                                                    *)
(***************************************************************************)
MaxItems == 2
MaxFiles == 2
MaxLatency == 1
MaxTimeout == 2
MaxInterval == 2
MaxSegments == 2

Variants == {"node", "legacy", "stream"}

(***************************************************************************)
(* JSON values.                                                            *)
(***************************************************************************)
JNull == <<"null">>
JStr(s) == <<"str", s>>
JArr(s) == <<"arr", s>>
JObj(o) == <<"obj", o>>
Undefined == <<"undefined">>
EmptyObject == [f \in {} |-> JNull]

\* obj.field: the value, or undefined when the field is missing
Get(o, f) == IF f \in DOMAIN o THEN o[f] ELSE Undefined

\* {...a, ...b}: the fields of both, b's value where both have the field
Spread(a, b) ==
    [f \in DOMAIN a \cup DOMAIN b |-> IF f \in DOMAIN b THEN b[f] ELSE a[f]]

(***************************************************************************)
(* Endpoint resolution.  baseUrl is a sequence of characters.              *)
(***************************************************************************)
Slash == <<"/">>
SlashRun == <<"/", "r", "u", "n">>
SlashRuns == <<"/", "r", "u", "n", "s">>
SlashFiles == <<"/", "f", "i", "l", "e", "s">>
SlashFile == <<"/", "f", "i", "l", "e">>
SlashDetail == <<"/", "d", "e", "t", "a", "i", "l">>
SlashListed == <<"/", "l", "i", "s", "t", "e", "d", "?", "l", "i", "m", "i", "t", "=", "1", "0", "0">>
HttpScheme == <<"h", "t", "t", "p", ":", "/", "/">>
HttpsScheme == <<"h", "t", "t", "p", "s", ":", "/", "/">>

\* String.prototype.endsWith / startsWith
EndsWith(s, suffix) ==
    /\ Len(s) >= Len(suffix)
    /\ SubSeq(s, Len(s) - Len(suffix) + 1, Len(s)) = suffix
StartsWith(s, prefix) ==
    /\ Len(s) >= Len(prefix)
    /\ SubSeq(s, 1, Len(prefix)) = prefix

\* s.slice(0, -n)
SliceOff(s, n) == IF Len(s) > n THEN SubSeq(s, 1, Len(s) - n) ELSE <<>>

\* (mutant) two trailing slashes are stripped
StripSlash_Twice(baseUrl) ==
    IF EndsWith(baseUrl, <<"/", "/">>) THEN SliceOff(baseUrl, 2)
    ELSE IF EndsWith(baseUrl, Slash) THEN SliceOff(baseUrl, 1) ELSE baseUrl

\* baseUrl.endsWith('/') ? baseUrl.slice(0, -1) : baseUrl
StripSlash(baseUrl) ==
    IF EndsWith(baseUrl, Slash) THEN SliceOff(baseUrl, 1) ELSE baseUrl

\* the cleanBaseUrl that getStatus, listFiles and downloadFile derive (legacy)
CleanBaseUrl(baseUrl) ==
    LET clean == StripSlash(baseUrl)
    IN  IF EndsWith(clean, SlashRun) THEN SliceOff(clean, 4) ELSE clean

\* baseUrl.match(/^(https?:\/\/[^\/]+)/): the matched group, or baseUrl
SchemeLen(baseUrl) ==
    IF StartsWith(baseUrl, HttpsScheme) THEN Len(HttpsScheme)
    ELSE IF StartsWith(baseUrl, HttpScheme) THEN Len(HttpScheme)
    ELSE 0
HostEnd(baseUrl) ==
    LET from == SchemeLen(baseUrl)
        ends == {n \in from..Len(baseUrl) :
                    \A j \in (from + 1)..n : baseUrl[j] # "/"}
    IN  CHOOSE n \in ends : \A m \in ends : m <= n
BaseDomain(baseUrl) ==
    IF SchemeLen(baseUrl) > 0 /\ HostEnd(baseUrl) > SchemeLen(baseUrl)
    THEN SubSeq(baseUrl, 1, HostEnd(baseUrl))
    ELSE baseUrl

\* runWorker: options.url
RunUrl(v, baseUrl) ==
    IF v = "node" THEN baseUrl \o SlashRun
    ELSE LET clean == StripSlash(baseUrl)
         IN  IF EndsWith(clean, SlashRun) THEN clean ELSE clean \o SlashRun

\* getStatus: options.url
StatusUrl(v, baseUrl, id) ==
    CASE v = "node"   -> baseUrl \o SlashRun \o Slash \o <<id>>
      [] v = "legacy" -> CleanBaseUrl(baseUrl) \o SlashRun \o Slash \o <<id>>
      [] v = "stream" -> BaseDomain(baseUrl) \o SlashRuns \o Slash \o <<id>> \o SlashDetail

\* listFiles: options.url
ListFilesUrl(v, baseUrl, id) ==
    CASE v = "node"   -> baseUrl \o SlashRun \o Slash \o <<id>> \o SlashFiles
      [] v = "legacy" -> CleanBaseUrl(baseUrl) \o SlashRun \o Slash \o <<id>> \o SlashFiles
      [] v = "stream" -> BaseDomain(baseUrl) \o SlashRuns \o Slash \o <<id>> \o SlashFile \o SlashListed

\* downloadFile: options.url
DownloadUrl(v, baseUrl, id, fileName) ==
    CASE v = "node"   ->
            baseUrl \o SlashRun \o Slash \o <<id>> \o SlashFiles \o Slash \o <<fileName>>
      [] v = "legacy" ->
            CleanBaseUrl(baseUrl) \o SlashRun \o Slash \o <<id>> \o SlashFiles \o Slash \o <<fileName>>
      [] v = "stream" ->
            BaseDomain(baseUrl) \o SlashRuns \o Slash \o <<id>> \o SlashFile \o Slash \o <<fileName>>

(***************************************************************************)
(* The worker URLs tried: a scheme, a host and up to MaxSegments path      *)
(* segments, each written in four forms: as is, with a trailing slash,     *)
(* with a trailing /run and with a trailing /run/.                         *)
(***************************************************************************)
Segments == {<<"/", "w">>, SlashRun, Slash}
RECURSIVE Paths(_)
Paths(n) ==
    IF n = 0 THEN {<<>>}
    ELSE Paths(n - 1) \cup {p \o s : p \in Paths(n - 1), s \in Segments}
Roots == {scheme \o <<"a">> \o path :
             scheme \in {HttpScheme, HttpsScheme, <<>>}, path \in Paths(MaxSegments)}
Forms == <<(<<>>), Slash, SlashRun, SlashRun \o Slash>>
EndpointNames == <<"submit", "status", "list", "download">>
UrlIds == {"E1", "E2"}
UrlFiles == {"a.pdf"}

\* the k-th resolution performed: forms in order, endpoints in order per form
TurnOf(k) == <<((k - 1) \div Len(EndpointNames)) + 1,
               ((k - 1) % Len(EndpointNames)) + 1>>
UrlTurn(f, e) == TurnOf(Cardinality(DOMAIN resolved) + 1) = <<f, e>>

InitUrlIdle ==
    /\ uRoot = <<>> /\ uId = "E1" /\ uFile = "a.pdf" /\ uVariant = "node"
    /\ resolved = <<>>

InitUrl ==
    /\ uRoot \in Roots
    /\ uId \in UrlIds
    /\ uFile \in UrlFiles
    /\ uVariant \in Variants
    /\ resolved = <<>>

ResolveRun(f) ==
    /\ UrlTurn(f, 1)
    /\ resolved' = resolved @@ (<<f, 1>> :> RunUrl(uVariant, uRoot \o Forms[f]))
    /\ UNCHANGED <<uRoot, uId, uFile, uVariant, pipeVars, mimeVars>>

ResolveStatus(f) ==
    /\ UrlTurn(f, 2)
    /\ resolved' = resolved @@ (<<f, 2>> :> StatusUrl(uVariant, uRoot \o Forms[f], uId))
    /\ UNCHANGED <<uRoot, uId, uFile, uVariant, pipeVars, mimeVars>>

ResolveListFiles(f) ==
    /\ UrlTurn(f, 3)
    /\ resolved' = resolved @@ (<<f, 3>> :> ListFilesUrl(uVariant, uRoot \o Forms[f], uId))
    /\ UNCHANGED <<uRoot, uId, uFile, uVariant, pipeVars, mimeVars>>

ResolveDownload(f) ==
    /\ UrlTurn(f, 4)
    /\ resolved' = resolved @@ (<<f, 4>> :> DownloadUrl(uVariant, uRoot \o Forms[f], uId, uFile))
    /\ UNCHANGED <<uRoot, uId, uFile, uVariant, pipeVars, mimeVars>>

NextUrl ==
    \E f \in 1..Len(Forms) :
        \/ ResolveRun(f)
        \/ ResolveStatus(f)
        \/ ResolveListFiles(f)
        \/ ResolveDownload(f)

(***************************************************************************)
(* getMimeType.  A file name is a sequence of characters.                  *)
(***************************************************************************)
UpperCase == <<"A", "B", "C", "D", "E", "F", "G", "H", "I", "J", "K", "L", "M",
               "N", "O", "P", "Q", "R", "S", "T", "U", "V", "W", "X", "Y", "Z">>
LowerCase == <<"a", "b", "c", "d", "e", "f", "g", "h", "i", "j", "k", "l", "m",
               "n", "o", "p", "q", "r", "s", "t", "u", "v", "w", "x", "y", "z">>
ToLowerChar(c) ==
    IF \E k \in 1..Len(UpperCase) : UpperCase[k] = c
    THEN LowerCase[CHOOSE k \in 1..Len(UpperCase) : UpperCase[k] = c]
    ELSE c
ToLowerCase(s) == [k \in 1..Len(s) |-> ToLowerChar(s[k])]

\* fileName.split('.').pop(): what follows the last dot, the name when none
LastSegment(fileName) ==
    LET dots == {k \in 1..Len(fileName) : fileName[k] = "."}
    IN  IF dots = {} THEN fileName
        ELSE SubSeq(fileName, (CHOOSE k \in dots : \A m \in dots : m <= k) + 1,
                    Len(fileName))

OctetStream == "application/octet-stream"
\* the own keys of the mimeTypes object literal
MimeTypes ==
    (<<"p", "d", "f">> :> "application/pdf")
 @@ (<<"p", "n", "g">> :> "image/png")
 @@ (<<"j", "p", "g">> :> "image/jpeg")
 @@ (<<"j", "p", "e", "g">> :> "image/jpeg")
 @@ (<<"g", "i", "f">> :> "image/gif")
 @@ (<<"t", "x", "t">> :> "text/plain")
 @@ (<<"j", "s", "o", "n">> :> "application/json")
 @@ (<<"x", "m", "l">> :> "application/xml")
 @@ (<<"c", "s", "v">> :> "text/csv")
 @@ (<<"x", "l", "s", "x">> :>
        "application/vnd.openxmlformats-officedocument.spreadsheetml.sheet")
 @@ (<<"d", "o", "c", "x">> :>
        "application/vnd.openxmlformats-officedocument.wordprocessingml.document")

\* the lower-case keys mimeTypes inherits from Object.prototype: a read of
\* mimeTypes[key] yields the inherited member, which is no string: the
\* function Object for constructor, the object Object.prototype for __proto__
InheritedKeys ==
    {<<"c", "o", "n", "s", "t", "r", "u", "c", "t", "o", "r">>,
     <<"_", "_", "p", "r", "o", "t", "o", "_", "_">>}
Inherited(key) ==
    IF key = <<"c", "o", "n", "s", "t", "r", "u", "c", "t", "o", "r">>
    THEN "[Function: Object]" ELSE "[Object: null prototype] {}"

\* mimeTypes[extension || ''] || 'application/octet-stream': an own
\* property, else an inherited one (truthy), else the default
GetMimeType(fileName) ==
    LET extension == ToLowerCase(LastSegment(fileName))
    IN  IF extension \in DOMAIN MimeTypes THEN MimeTypes[extension]
        ELSE IF extension \in InheritedKeys THEN Inherited(extension)
        ELSE OctetStream

(***************************************************************************)
(* The file names getMimeType is tried on: a stem, then a dot or nothing,  *)
(* then a last word written in lower case, in upper case or capitalised.   *)
(***************************************************************************)
ToUpperChar(c) ==
    IF \E k \in 1..Len(LowerCase) : LowerCase[k] = c
    THEN UpperCase[CHOOSE k \in 1..Len(LowerCase) : LowerCase[k] = c]
    ELSE c
ToUpperCase(s) == [k \in 1..Len(s) |-> ToUpperChar(s[k])]
Capitalised(s) ==
    [k \in 1..Len(s) |-> IF k = 1 THEN ToUpperChar(s[k]) ELSE s[k]]
Stems == {<<>>, <<"a">>, <<"r", "e", "p", "o", "r", "t">>, <<"a", ".", "b">>}
LastWords ==
    DOMAIN MimeTypes \cup InheritedKeys
        \cup {<<>>, <<"z", "i", "p">>, <<"n", "o", "e", "x", "t">>}
Casings(word) == {word, ToUpperCase(word), Capitalised(word)}
MimeFileNames ==
    {stem \o sep \o w : stem \in Stems, sep \in {<<>>, <<".">>},
                        w \in UNION {Casings(word) : word \in LastWords}}

InitMimeIdle == mFileName = <<>> /\ mResult = ""

InitMime ==
    /\ mFileName \in MimeFileNames
    /\ mResult = ""

\* getMimeType(fileName) is called and returns
CallGetMimeType ==
    /\ mResult = ""
    /\ mResult' = GetMimeType(mFileName)
    /\ UNCHANGED <<mFileName, pipeVars, urlVars>>

(***************************************************************************)
(* createBinaryData: one slot per file, keyed `data` for a single file and *)
(* `data<index>` otherwise; a later file with the same key replaces the    *)
(* earlier one.                                                            *)
(***************************************************************************)
\* (mutant) every file is keyed `data`
PropertyName_Unnumbered(n, index) == "data"
PropertyName(n, index) == IF n = 1 THEN "data" ELSE "data" \o ToString(index)

BinaryEntry(file) ==
    [data |-> file.data, fileName |-> file.fileName, mimeType |-> file.mimeType]

RECURSIVE AssignSlots(_, _, _)
AssignSlots(files, k, binaryData) ==
    IF k > Len(files) THEN binaryData
    ELSE AssignSlots(files, k + 1,
            [name \in DOMAIN binaryData \cup {PropertyName(Len(files), k - 1)} |->
                IF name = PropertyName(Len(files), k - 1)
                THEN BinaryEntry(files[k])
                ELSE binaryData[name]])

CreateBinaryData(files) == AssignSlots(files, 1, EmptyObject)

(***************************************************************************)
(* The remote service and the host: what a run can be given, by            *)
(* environment.                                                            *)
(*   "full"     every combination of the fields the pollers read is a      *)
(*              possible status payload, a response may lack its data; a   *)
(*              request is answered at once or after MaxLatency seconds;   *)
(*              any Files parameter;                                       *)
(*   "plain"    instant requests, well-formed responses with the plain     *)
(*              payloads, MaxFiles files listed or none, nothing attached; *)
(*   "scenario" the end-to-end scenario: no files to attach, the first     *)
(*              status payload is {result: null}, every later one is       *)
(*              {id, result: "done"}.                                      *)
(***************************************************************************)
MsPerSec == 1000

\* all objects whose fields are optional and take the values options[field]
Objects(options) ==
    UNION { {o \in [D -> UNION {options[f] : f \in DOMAIN options}] :
                \A f \in D : o[f] \in options[f]} : D \in SUBSET DOMAIN options }

Latencies(env) ==
    IF env = "plain" THEN {0} ELSE {0, MaxLatency * MsPerSec}

\* the payloads the status endpoint can answer the n-th query of an execution
StatusPayloads(env, v, id, n) ==
    CASE env = "full" /\ v = "stream" ->
            Objects([status |-> {JStr("running"), JStr("completed"),
                                 JStr("failed"), JStr("error")}])
      [] env = "full" /\ v # "stream" ->
            Objects([id     |-> {JStr(id)},
                     result |-> {JNull, JStr(""), JStr("done")},
                     status |-> {JStr("completed"), JStr("failed")}])
      [] env = "plain" /\ v = "stream" ->
            {[status |-> JStr("running")], [status |-> JStr("completed")],
             [status |-> JStr("failed")]}
      [] env = "plain" /\ v # "stream" ->
            {[result |-> JNull], [id |-> JStr(id), result |-> JStr("done")]}
      [] env = "scenario" ->
            IF n = 1 THEN {[result |-> JNull]}
            ELSE {[id |-> JStr(id), result |-> JStr("done")]}

\* a response body {status: "success", data: ...}, or one with no data field
WithData(payload) == [status |-> JStr("success"), data |-> JObj(payload)]
NoData == [status |-> JStr("error")]

StatusBodies(env, v, id, n) ==
    {WithData(p) : p \in StatusPayloads(env, v, id, n)}
        \cup IF env = "full" THEN {NoData} ELSE {}

FileNames == {<<"a", ".", "p", "d", "f">>, <<"n", "o", "e", "x", "t">>}
RECURSIVE FileLists(_)
FileLists(n) ==
    IF n = 0 THEN {<<>>}
    ELSE FileLists(n - 1)
         \cup {Append(l, [fileName |-> JStr(f)]) : l \in FileLists(n - 1), f \in FileNames}

ListPayloads(env) ==
    IF env = "plain"
    THEN {[out |-> JNull], EmptyObject}
         \cup {[out |-> JArr([k \in 1..MaxFiles |-> [fileName |-> JStr(<<"a", ".", "p", "d", "f">>)]])]}
    ELSE Objects([out |-> {JNull} \cup {JArr(l) : l \in FileLists(MaxFiles)}])

ListBodies(env) ==
    {WithData(p) : p \in ListPayloads(env)} \cup IF env = "full" THEN {NoData} ELSE {}

\* the Files parameter after split(',') and trim, and the item's binary keys
FilesProperties(env) ==
    IF env = "full" THEN {<<>>, <<"data">>, <<"data", "doc">>} ELSE {<<>>}
BinaryKeys == SUBSET {"data", "doc"}

\* the bytes the remote service holds for a file
FileBytes(id, fileName) == <<"bytes", id, fileName>>

\* the id the remote service gives its n-th execution
ExecutionIdOf(n) == "E" \o ToString(n)

(***************************************************************************)
(* Errors.                                                                 *)
(***************************************************************************)
NoError == [kind |-> "none", message |-> <<>>]
TransportError(request) ==
    [kind |-> "TransportError", message |-> <<"request failed", request>>]
AttachmentNotFound(prop) ==
    [kind |-> "AttachmentNotFound", message |-> <<"no binary data property", prop>>]
TypeError(prop) ==
    [kind |-> "TypeError", message |-> <<"cannot read properties of undefined", prop>>]
TimeoutError(v, seconds) ==
    [kind |-> "Timeout",
     message |-> <<IF v = "stream" THEN "Execution timed out after"
                   ELSE "Worker execution timed out after", seconds, "seconds">>]

\* JavaScript truthiness of a JSON value
Truthy(v) == v \notin {Undefined, JNull, JStr("")}

\* the object inside a JSON object value
ObjectOf(v) == v[2]

(***************************************************************************)
(* execute(): the item loop.                                               *)
(***************************************************************************)
TimeoutMs == timeout * MsPerSec
\* (mutant) the poller sleeps for the timeout instead of the interval
IntervalMs_SleepsTimeout == timeout * MsPerSec
\* (mutant) the poller sleeps for two polling intervals
IntervalMs_Doubled == 2 * pollingInterval * MsPerSec
IntervalMs == pollingInterval * MsPerSec
\* (mutant) the time elapsed is counted from the start of the run
Elapsed_SinceRunStart == now
Elapsed == now - startTime

\* (mutant) a request goes out for the item after the current one
Request_ForNextItem(kind, id, fileName) ==
    [kind |-> kind, item |-> i + 1, id |-> id, file |-> fileName, at |-> now]

\* an HTTP request of the current item, as the remote service sees it
Request(kind, id, fileName) ==
    [kind |-> kind, item |-> i, id |-> id, file |-> fileName, at |-> now]

\* the requests of one kind issued so far for an item
RequestsOf(item, kind) ==
    SelectSeq(requests, LAMBDA r : r.item = item /\ r.kind = kind)
StatusQueries(item) == Len(RequestsOf(item, "status"))

InitPipe(counts) ==
    /\ variant \in Variants
    /\ operation \in IF variant = "stream" THEN {"runWorker"}
                     ELSE {"runWorker", "runWorkerAsync"}
    /\ continueOnFail \in BOOLEAN
    /\ nItems \in counts
    /\ pollingInterval \in IF operation = "runWorker" THEN 1..MaxInterval ELSE {1}
    /\ timeout \in IF operation = "runWorker" THEN 0..MaxTimeout ELSE {0}
    /\ autoDownloadFiles \in IF operation = "runWorker" THEN BOOLEAN ELSE {FALSE}
    /\ pc = "loop"
    /\ i = 0
    /\ executionId = ""
    /\ startTime = 0
    /\ status = EmptyObject
    /\ finalResult = EmptyObject
    /\ outFiles = <<>>
    /\ downloadedFiles = <<>>
    /\ err = NoError
    /\ returnData = <<>>
    /\ stepsOutput = <<>>
    /\ now = 0
    /\ requests = <<>>
    /\ submitted = 0
    /\ lastQueryMs = 0
    /\ history = <<>>

InitPipeIdle ==
    /\ variant = "node" /\ operation = "runWorker" /\ continueOnFail = FALSE
    /\ nItems = 0 /\ pollingInterval = 1 /\ timeout = 0
    /\ autoDownloadFiles = FALSE /\ pc = "idle" /\ i = 0 /\ executionId = ""
    /\ startTime = 0 /\ status = EmptyObject /\ finalResult = EmptyObject
    /\ outFiles = <<>> /\ downloadedFiles = <<>> /\ err = NoError
    /\ returnData = <<>> /\ stepsOutput = <<>> /\ now = 0 /\ requests = <<>>
    /\ submitted = 0 /\ lastQueryMs = 0 /\ history = <<>>

\* what no step of a run changes: the host's inputs (and the resolver's state)
config == <<variant, operation, continueOnFail, nItems, pollingInterval,
            timeout, autoDownloadFiles, urlVars, mimeVars>>

\* the locals of one loop iteration go out of scope; the loop index advances
NextItem ==
    /\ i' = i + 1
    /\ pc' = "loop"
    /\ executionId' = ""
    /\ startTime' = 0
    /\ status' = EmptyObject
    /\ finalResult' = EmptyObject
    /\ outFiles' = <<>>
    /\ downloadedFiles' = <<>>
    /\ lastQueryMs' = 0
    /\ err' = NoError
    /\ history' = Append(history, [item |-> i, err |-> err, reqs |-> Len(requests)])

\* an exception leaves the try block
Throw(e) ==
    /\ err' = e
    /\ pc' = "catch"

\* for (let i = 0; i < items.length; i++): the loop ends, execute returns
LoopExit ==
    /\ pc = "loop"
    /\ ~(i < nItems)
    /\ pc' = "returned"
    /\ UNCHANGED <<config, i, executionId, startTime, status, finalResult,
                   outFiles, downloadedFiles, err, returnData, stepsOutput,
                   now, requests, submitted, lastQueryMs, history>>

\* (mutant) the POST is sent before the attachments are resolved
RunWorker_SendsFirst(env) ==
    /\ pc = "loop"
    /\ i < nItems
    /\ requests' = Append(requests, Request("submit", "", <<>>))
    /\ \E props \in FilesProperties(env), keys \in BinaryKeys :
          LET missing == {k \in 1..Len(props) : props[k] \notin keys}
          IN  IF missing # {}
              THEN Throw(AttachmentNotFound(
                             props[CHOOSE k \in missing : \A m \in missing : k <= m]))
              ELSE /\ pc' = "awaitSubmit"
                   /\ UNCHANGED err
    /\ UNCHANGED <<config, i, executionId, startTime, status, finalResult,
                   outFiles, downloadedFiles, returnData, stepsOutput, now,
                   submitted, lastQueryMs, history>>

\* runWorker up to its request: the attachments are resolved, the POST is sent
RunWorker(env) ==
    /\ pc = "loop"
    /\ i < nItems
    /\ \E props \in FilesProperties(env), keys \in BinaryKeys :
          LET missing == {k \in 1..Len(props) : props[k] \notin keys}
          IN  IF missing # {}
              THEN /\ Throw(AttachmentNotFound(
                              props[CHOOSE k \in missing : \A m \in missing : k <= m]))
                   /\ UNCHANGED requests
              ELSE /\ requests' = Append(requests, Request("submit", "", <<>>))
                   /\ pc' = "awaitSubmit"
                   /\ UNCHANGED err
    /\ UNCHANGED <<config, i, executionId, startTime, status, finalResult,
                   outFiles, downloadedFiles, returnData, stepsOutput, now,
                   submitted, lastQueryMs, history>>

\* the submit request fails (a non-2xx answer, a network error, a bad body)
SubmitFails(env) ==
    /\ pc = "awaitSubmit"
    /\ \E latency \in Latencies(env) : now' = now + latency
    /\ Throw(TransportError("submit"))
    /\ UNCHANGED <<config, i, executionId, startTime, status, finalResult,
                   outFiles, downloadedFiles, returnData, stepsOutput,
                   requests, submitted, lastQueryMs, history>>

\* the submit response {status, data: <execution id>}
SubmitBody(id) == [status |-> JStr("success"), data |-> JStr(id)]

\* (mutant) Run Worker (Async) waits for completion like Run Worker
SubmitReturns_AlwaysWaits(env) ==
    /\ pc = "awaitSubmit"
    /\ submitted' = submitted + 1
    /\ \E latency \in Latencies(env) : now' = now + latency
    /\ executionId' = ExecutionIdOf(submitted + 1)
    /\ startTime' = now'
    /\ pc' = "pollTop"
    /\ UNCHANGED <<i, status, finalResult, outFiles, downloadedFiles,
                   returnData, lastQueryMs, err, history>>
    /\ UNCHANGED <<config, stepsOutput, requests>>

\* (mutant) the poll clock starts when the submit request is sent
SubmitReturns_ClockFromRequest(env) ==
    /\ pc = "awaitSubmit"
    /\ submitted' = submitted + 1
    /\ \E latency \in Latencies(env) : now' = now + latency
    /\ LET id == ExecutionIdOf(submitted + 1)
       IN  IF operation = "runWorkerAsync"
           THEN /\ returnData' = Append(returnData, [json |-> SubmitBody(id)])
                /\ NextItem
           ELSE /\ executionId' = id
                /\ startTime' = requests[Len(requests)].at
                /\ pc' = "pollTop"
                /\ UNCHANGED <<i, status, finalResult, outFiles, downloadedFiles,
                               returnData, lastQueryMs, err, history>>
    /\ UNCHANGED <<config, stepsOutput, requests>>

\* runWorker returns; Run Worker (Async) pushes the response, Run Worker
\* enters the poll loop: startTime = Date.now()
SubmitReturns(env) ==
    /\ pc = "awaitSubmit"
    /\ submitted' = submitted + 1
    /\ \E latency \in Latencies(env) : now' = now + latency
    /\ LET id == ExecutionIdOf(submitted + 1)
       IN  IF operation = "runWorkerAsync"
           THEN /\ returnData' = Append(returnData, [json |-> SubmitBody(id)])
                /\ NextItem
           ELSE /\ executionId' = id
                /\ startTime' = now'
                /\ pc' = "pollTop"
                /\ UNCHANGED <<i, status, finalResult, outFiles, downloadedFiles,
                               returnData, lastQueryMs, err, history>>
    /\ UNCHANGED <<config, stepsOutput, requests>>

\* (mutant) the deadline is taken one polling interval too late
DeadlinePassed_Late == Elapsed > TimeoutMs + IntervalMs

\* (mutant) the deadline counts as passed when the timeout has just elapsed
DeadlinePassed_AtDeadline == Elapsed >= TimeoutMs

\* elapsed > timeoutMs  /  (Date.now() - startTime) / 1000 > timeout
DeadlinePassed == Elapsed > TimeoutMs

\* the top of a poll iteration finds the deadline passed
\* (mutant) a passed deadline ends the poll loop as if it had completed
PollTimeout_ThenRetrieve ==
    /\ pc = "pollTop"
    /\ DeadlinePassed
    /\ pc' = "pollDone"
    /\ UNCHANGED <<config, i, executionId, startTime, status, finalResult,
                   outFiles, downloadedFiles, err, returnData, stepsOutput, now,
                   requests, submitted, lastQueryMs, history>>

\* the deadline has passed at the top of a poll iteration: Timeout is thrown
PollTimeout ==
    /\ pc = "pollTop"
    /\ DeadlinePassed
    /\ Throw(TimeoutError(variant, timeout))
    /\ UNCHANGED <<config, i, executionId, startTime, status, finalResult,
                   outFiles, downloadedFiles, returnData, stepsOutput, now,
                   requests, submitted, lastQueryMs, history>>

\* (mutant) every status query carries the handle of the first submit
QueryStatus_FirstHandle ==
    /\ pc = "pollTop"
    /\ ~DeadlinePassed
    /\ requests' = Append(requests, Request("status", ExecutionIdOf(1), <<>>))
    /\ pc' = "awaitStatus"
    /\ UNCHANGED <<config, i, executionId, startTime, status, finalResult,
                   outFiles, downloadedFiles, err, returnData, stepsOutput,
                   now, submitted, lastQueryMs, history>>

\* the top of a poll iteration issues the status query
QueryStatus ==
    /\ pc = "pollTop"
    /\ ~DeadlinePassed
    /\ requests' = Append(requests, Request("status", executionId, <<>>))
    /\ pc' = "awaitStatus"
    /\ UNCHANGED <<config, i, executionId, startTime, status, finalResult,
                   outFiles, downloadedFiles, err, returnData, stepsOutput,
                   now, submitted, lastQueryMs, history>>

\* (mutant) a failed status query is issued again
StatusFails_Retried(env) ==
    /\ pc = "awaitStatus"
    /\ \E latency \in Latencies(env) :
          /\ now' = now + latency
          /\ lastQueryMs' = latency
    /\ requests' = Append(requests, [Request("status", executionId, <<>>)
                                        EXCEPT !.at = now'])
    /\ UNCHANGED <<config, i, executionId, startTime, status, finalResult,
                   outFiles, downloadedFiles, returnData, stepsOutput, pc, err,
                   submitted, history>>

\* the status request fails
StatusFails(env) ==
    /\ pc = "awaitStatus"
    /\ \E latency \in Latencies(env) :
          /\ now' = now + latency
          /\ lastQueryMs' = latency
    /\ Throw(TransportError("status"))
    /\ UNCHANGED <<config, i, executionId, startTime, status, finalResult,
                   outFiles, downloadedFiles, returnData, stepsOutput,
                   requests, submitted, history>>

\* (mutant) the empty string is not tested for
ResultComplete_NoEmptyTest(statusData) ==
    Get(statusData, "result") \notin {JNull, Undefined}

\* (mutant) null is not tested for
ResultComplete_NoNullTest(statusData) ==
    Get(statusData, "result") \notin {Undefined, JStr("")}

\* statusData.result !== null && statusData.result !== undefined
\*   && statusData.result !== ''
ResultComplete(statusData) ==
    Get(statusData, "result") \notin {JNull, Undefined, JStr("")}

\* (mutant) only 'completed' ends the poll loop
StatusComplete_OnlyCompleted(body) ==
    /\ Truthy(Get(body, "data"))
    /\ Get(ObjectOf(Get(body, "data")), "status") = JStr("completed")

\* (mutant) 'error' is not among the terminal statuses
StatusComplete_NoError(body) ==
    /\ Truthy(Get(body, "data"))
    /\ Get(ObjectOf(Get(body, "data")), "status")
          \in {JStr("completed"), JStr("failed")}

\* statusData && (statusData.status === 'completed'
\*   || statusData.status === 'failed' || statusData.status === 'error')
StatusComplete(body) ==
    /\ Truthy(Get(body, "data"))
    /\ Get(ObjectOf(Get(body, "data")), "status")
          \in {JStr("completed"), JStr("failed"), JStr("error")}

\* the record the streaming node pushes to Steps for a status response
\* (mutant) the step record does not name the execution
StepRecord_Untagged(body, at) ==
    [json |-> [executionId |-> JStr(""),
               status |-> IF Truthy(Get(body, "data")) THEN Get(body, "data")
                          ELSE JObj(body),
               timestamp |-> at]]

\* (mutant) the step record holds the data of the response only
StepRecord_DataOnly(body, at) ==
    [json |-> [executionId |-> JStr(executionId),
               status |-> Get(body, "data"),
               timestamp |-> at]]

\* stepsOutput.push: the record of one poll iteration
StepRecord(body, at) ==
    [json |-> [executionId |-> JStr(executionId),
               status |-> IF Truthy(Get(body, "data")) THEN Get(body, "data")
                          ELSE JObj(body),
               timestamp |-> at]]

\* a status response arrives: the poller returns the payload (DONE), or
\* starts the setTimeout of one polling interval (RUNNING)
StatusReturns(env) ==
    /\ pc = "awaitStatus"
    /\ \E latency \in Latencies(env), body \in StatusBodies(env, variant, executionId, StatusQueries(i)) :
          /\ now' = now + latency
          /\ lastQueryMs' = latency
          /\ status' = body
          /\ IF variant = "stream"
             THEN /\ stepsOutput' = Append(stepsOutput, StepRecord(body, now'))
                  /\ IF StatusComplete(body)
                     THEN /\ finalResult' = ObjectOf(Get(body, "data"))
                          /\ pc' = "pollDone"
                     ELSE /\ pc' = "sleeping"
                          /\ UNCHANGED finalResult
                  /\ UNCHANGED err
             ELSE /\ UNCHANGED stepsOutput
                  /\ IF Get(body, "data") = Undefined
                     THEN /\ Throw(TypeError("result"))
                          /\ UNCHANGED finalResult
                     ELSE IF ResultComplete(ObjectOf(Get(body, "data")))
                     THEN /\ finalResult' = ObjectOf(Get(body, "data"))
                          /\ pc' = "pollDone"
                          /\ UNCHANGED err
                     ELSE /\ pc' = "sleeping"
                          /\ UNCHANGED <<finalResult, err>>
    /\ UNCHANGED <<config, i, executionId, startTime, outFiles, downloadedFiles,
                   returnData, requests, submitted, history>>

\* (mutant) the timer of the sleep never fires
WakeUp_Never ==
    /\ pc = "sleeping"
    /\ UNCHANGED vars

\* await new Promise(resolve => setTimeout(resolve, intervalMs)) completes
WakeUp ==
    /\ pc = "sleeping"
    /\ now' = now + IntervalMs
    /\ status' = EmptyObject
    /\ pc' = "pollTop"
    /\ UNCHANGED <<config, i, executionId, startTime, finalResult, outFiles,
                   downloadedFiles, err, returnData, stepsOutput, requests,
                   submitted, lastQueryMs, history>>

(***************************************************************************)
(* File retrieval and the result record.                                   *)
(***************************************************************************)
\* whether execute calls downloadAllFiles once the poller has returned
WantsFiles ==
    IF variant = "stream"
    THEN autoDownloadFiles /\ Get(finalResult, "status") = JStr("completed")
    ELSE autoDownloadFiles

\* downloadAllFiles begins: the list-files request is sent
ListFiles ==
    /\ pc = "pollDone"
    /\ WantsFiles
    /\ requests' = Append(requests, Request("list", executionId, <<>>))
    /\ pc' = "awaitList"
    /\ UNCHANGED <<config, i, executionId, startTime, status, finalResult,
                   outFiles, downloadedFiles, err, returnData, stepsOutput,
                   now, submitted, lastQueryMs, history>>

ListFails(env) ==
    /\ pc = "awaitList"
    /\ \E latency \in Latencies(env) : now' = now + latency
    /\ Throw(TransportError("list"))
    /\ UNCHANGED <<config, i, executionId, startTime, status, finalResult,
                   outFiles, downloadedFiles, returnData, stepsOutput,
                   requests, submitted, lastQueryMs, history>>

\* (mutant) a collection that is null or left out counts as one file
OutFilesOf_OneForNone(filesData) ==
    IF Truthy(Get(filesData, "out")) THEN Get(filesData, "out")[2]
    ELSE <<[fileName |-> JStr(<<"a", ".", "p", "d", "f">>)]>>

\* (filesData.out || [])
OutFilesOf(filesData) ==
    IF Truthy(Get(filesData, "out")) THEN Get(filesData, "out")[2] ELSE <<>>

\* (mutant) the listed files are taken from the last to the first
FileNameAt_Reversed(files, k) == Get(files[Len(files) + 1 - k], "fileName")[2]

\* file.fileName of the k-th listed file
FileNameAt(files, k) == Get(files[k], "fileName")[2]

\* the list-files response arrives: the first download is requested, or
\* there is nothing to download
ListReturns(env) ==
    /\ pc = "awaitList"
    /\ \E latency \in Latencies(env), body \in ListBodies(env) :
          /\ now' = now + latency
          /\ IF Get(body, "data") = Undefined
             THEN /\ Throw(TypeError("out"))
                  /\ UNCHANGED <<outFiles, requests>>
             ELSE LET files == OutFilesOf(ObjectOf(Get(body, "data")))
                  IN  /\ outFiles' = files
                      /\ UNCHANGED err
                      /\ IF Len(files) = 0
                         THEN /\ pc' = "filesDone"
                              /\ UNCHANGED requests
                         ELSE /\ pc' = "awaitDownload"
                              /\ requests' = Append(requests,
                                    [Request("download", executionId, FileNameAt(files, 1))
                                        EXCEPT !.at = now'])
    /\ UNCHANGED <<config, i, executionId, startTime, status, finalResult,
                   downloadedFiles, returnData, stepsOutput, submitted,
                   lastQueryMs, history>>

DownloadFails(env) ==
    /\ pc = "awaitDownload"
    /\ \E latency \in Latencies(env) : now' = now + latency
    /\ Throw(TransportError("download"))
    /\ UNCHANGED <<config, i, executionId, startTime, status, finalResult,
                   outFiles, downloadedFiles, returnData, stepsOutput,
                   requests, submitted, lastQueryMs, history>>

\* what downloadFile returns for a file
DownloadedFile(id, fileName) ==
    [data |-> FileBytes(id, fileName), fileName |-> fileName,
     mimeType |-> GetMimeType(fileName)]

\* a download returns: the file is kept and the next one is requested
DownloadReturns(env) ==
    /\ pc = "awaitDownload"
    /\ \E latency \in Latencies(env) : now' = now + latency
    /\ LET k == Len(downloadedFiles) + 1
       IN  /\ downloadedFiles' =
                Append(downloadedFiles, DownloadedFile(executionId, FileNameAt(outFiles, k)))
           /\ IF k < Len(outFiles)
              THEN /\ requests' = Append(requests,
                         [Request("download", executionId, FileNameAt(outFiles, k + 1))
                             EXCEPT !.at = now'])
                   /\ UNCHANGED pc
              ELSE /\ pc' = "filesDone"
                   /\ UNCHANGED requests
    /\ UNCHANGED <<config, i, executionId, startTime, status, finalResult,
                   outFiles, err, returnData, stepsOutput, submitted,
                   lastQueryMs, history>>

\* downloadedFiles.map(f => ({ fileName: f.fileName, mimeType: f.mimeType }))
FilesList(files) ==
    [k \in 1..Len(files) |-> [fileName |-> files[k].fileName,
                              mimeType |-> files[k].mimeType]]

\* the record execute pushes for a finished item
ResultRecord(downloaded) ==
    CASE variant = "node" ->
            [json |-> Spread(finalResult,
                        [executionId |-> JStr(executionId),
                         outputFiles |-> JArr(downloadedFiles)]),
             binary |-> IF Len(downloadedFiles) > 0
                        THEN JObj(CreateBinaryData(downloadedFiles)) ELSE Undefined]
      [] variant = "legacy" ->
            [json |-> Spread(finalResult,
                        [executionId |-> JStr(executionId),
                         outputFiles |-> JArr(FilesList(downloadedFiles))]),
             binary |-> IF downloaded
                        THEN JObj(CreateBinaryData(downloadedFiles)) ELSE Undefined]
      [] variant = "stream" ->
            [json |-> [executionId |-> JStr(executionId),
                       status |-> JObj(finalResult),
                       outputFiles |-> JArr(FilesList(downloadedFiles)),
                       completedAt |-> now],
             binary |-> IF downloaded
                        THEN JObj(CreateBinaryData(downloadedFiles)) ELSE Undefined]

\* (mutant) the item's record is pushed twice
PushResult_Twice ==
    /\ \/ pc = "filesDone"
       \/ pc = "pollDone" /\ ~WantsFiles
    /\ returnData' = Append(Append(returnData, ResultRecord(pc = "filesDone")),
                            ResultRecord(pc = "filesDone"))
    /\ NextItem
    /\ UNCHANGED <<config, stepsOutput, now, requests, submitted>>

\* returnData.push / finalOutput.push of the item's record; the next item
PushResult ==
    /\ \/ pc = "filesDone"
       \/ pc = "pollDone" /\ ~WantsFiles
    /\ returnData' = Append(returnData, ResultRecord(pc = "filesDone"))
    /\ NextItem
    /\ UNCHANGED <<config, stepsOutput, now, requests, submitted>>

\* the record pushed for a failed item
ErrorRecord ==
    IF variant = "stream"
    THEN [json |-> [error |-> JStr(err.message)]]
    ELSE [json |-> [error |-> JStr(err.message)], pairedItem |-> [item |-> i]]

\* (mutant) the failed item is skipped without a record
CatchContinue_NoRecord ==
    /\ pc = "catch"
    /\ continueOnFail
    /\ NextItem
    /\ UNCHANGED <<config, returnData, stepsOutput, now, requests, submitted>>

\* catch (error) { if (this.continueOnFail()) { push; continue; } ...
CatchContinue ==
    /\ pc = "catch"
    /\ continueOnFail
    /\ returnData' = Append(returnData, ErrorRecord)
    /\ NextItem
    /\ UNCHANGED <<config, stepsOutput, now, requests, submitted>>

\* (mutant) without continue-on-fail the error is swallowed and the loop goes on
CatchRethrow_Swallowed ==
    /\ pc = "catch"
    /\ ~continueOnFail
    /\ NextItem
    /\ UNCHANGED <<config, returnData, stepsOutput, now, requests, submitted>>

\* ... throw error; }: execute rejects with the error
CatchRethrow ==
    /\ pc = "catch"
    /\ ~continueOnFail
    /\ pc' = "thrown"
    /\ history' = Append(history, [item |-> i, err |-> err, reqs |-> Len(requests)])
    /\ UNCHANGED <<config, i, executionId, startTime, status, finalResult,
                   outFiles, downloadedFiles, err, returnData, stepsOutput,
                   now, requests, submitted, lastQueryMs>>

(***************************************************************************)
(* Specifications.                                                         *)
(*   Spec         : one run over at most one item, in the full environment.*)
(*   SpecItems    : one run over up to MaxItems items, plain environment.  *)
(*   SpecScenario : Run Worker without auto-download on one item, in the   *)
(*                  end-to-end scenario.                                   *)
(*   SpecUrl      : endpoint resolution of a worker URL in its four forms. *)
(*   SpecMimeType : getMimeType called on a file name.                      *)
(*   SpecPoll     : one Run Worker item without file retrieval, full       *)
(*                  environment, with the fairness of the event loop.      *)
(***************************************************************************)
Init == InitPipe(0..1) /\ InitUrlIdle /\ InitMimeIdle
Next ==
    \/ LoopExit
    \/ RunWorker("full")
    \/ SubmitFails("full")
    \/ SubmitReturns("full")
    \/ PollTimeout
    \/ QueryStatus
    \/ StatusFails("full")
    \/ StatusReturns("full")
    \/ WakeUp
    \/ ListFiles
    \/ ListFails("full")
    \/ ListReturns("full")
    \/ DownloadFails("full")
    \/ DownloadReturns("full")
    \/ PushResult
    \/ CatchContinue
    \/ CatchRethrow
Spec == Init /\ [][Next]_vars

InitItems == InitPipe(0..MaxItems) /\ InitUrlIdle /\ InitMimeIdle
NextItems ==
    \/ LoopExit
    \/ RunWorker("plain")
    \/ SubmitFails("plain")
    \/ SubmitReturns("plain")
    \/ PollTimeout
    \/ QueryStatus
    \/ StatusFails("plain")
    \/ StatusReturns("plain")
    \/ WakeUp
    \/ ListFiles
    \/ ListFails("plain")
    \/ ListReturns("plain")
    \/ DownloadFails("plain")
    \/ DownloadReturns("plain")
    \/ PushResult
    \/ CatchContinue
    \/ CatchRethrow
SpecItems == InitItems /\ [][NextItems]_vars

InitScenario ==
    /\ InitPipe({1})
    /\ InitUrlIdle
    /\ InitMimeIdle
    /\ variant # "stream"
    /\ operation = "runWorker"
    /\ ~autoDownloadFiles
NextScenario ==
    \/ LoopExit
    \/ RunWorker("scenario")
    \/ SubmitReturns("scenario")
    \/ PollTimeout
    \/ QueryStatus
    \/ StatusReturns("scenario")
    \/ WakeUp
    \/ PushResult
    \/ CatchContinue
    \/ CatchRethrow
SpecScenario == InitScenario /\ [][NextScenario]_vars

\* one Run Worker item without file retrieval, in the full environment; the
\* host's event loop runs every continuation that is ready: a due timer
\* fires, the top of a poll iteration runs, a request in flight is answered
\* or fails
InitPoll ==
    /\ InitPipe({1})
    /\ InitUrlIdle
    /\ InitMimeIdle
    /\ operation = "runWorker"
    /\ ~autoDownloadFiles
NextPoll ==
    \/ LoopExit
    \/ RunWorker("full")
    \/ SubmitFails("full")
    \/ SubmitReturns("full")
    \/ PollTimeout
    \/ QueryStatus
    \/ StatusFails("full")
    \/ StatusReturns("full")
    \/ WakeUp
    \/ PushResult
    \/ CatchContinue
    \/ CatchRethrow
FairPoll ==
    /\ WF_vars(PollTimeout)
    /\ WF_vars(QueryStatus)
    /\ WF_vars(StatusFails("full") \/ StatusReturns("full"))
    /\ WF_vars(WakeUp)
SpecPoll == InitPoll /\ [][NextPoll]_vars /\ FairPoll

InitResolve == InitPipeIdle /\ InitUrl /\ InitMimeIdle
SpecUrl == InitResolve /\ [][NextUrl]_vars

InitMimeType == InitPipeIdle /\ InitUrlIdle /\ InitMime
NextMimeType == CallGetMimeType
SpecMimeType == InitMimeType /\ [][NextMimeType]_vars

(***************************************************************************)
(* The claims.                                                             *)
(***************************************************************************)
\* a payload whose result field is present and non-empty
NonEmptyResult(payload) ==
    /\ "result" \in DOMAIN payload
    /\ payload["result"] # JNull
    /\ payload["result"] # JStr("")

\* a payload whose status field is completed, failed or error
TerminalStatus(payload) ==
    /\ "status" \in DOMAIN payload
    /\ \/ payload["status"] = JStr("completed")
       \/ payload["status"] = JStr("failed")
       \/ payload["status"] = JStr("error")

\* this step appends a request of the given kind
Issues(kind) ==
    /\ Len(requests') = Len(requests) + 1
    /\ requests'[Len(requests')].kind = kind

\* C1: in the result-based poller, a status response that carries a payload
\* ends the poll loop (DONE, the payload returned) if and only if the
\* payload's result is present, not null and not "", and otherwise leaves the
\* poller RUNNING, sleeping before it queries again.
C1_ResultPredicate ==
    [][ (pc = "awaitStatus" /\ variant # "stream" /\ "data" \in DOMAIN status')
          => LET payload == ObjectOf(status'["data"])
             IN  /\ (pc' = "pollDone") <=> NonEmptyResult(payload)
                 /\ (pc' = "sleeping") <=> ~NonEmptyResult(payload)
                 /\ pc' = "pollDone" => finalResult' = payload ]_vars

\* C1 witness: the second status query of a result-based run returned "done"
\* (the first response left the poller running, this one ended the loop)
C1_Witness ==
    /\ variant = "legacy"
    /\ pc = "pollDone"
    /\ StatusQueries(i) = 2
    /\ Get(finalResult, "result") = JStr("done")

\* C2: in the streaming poller, a status response ends the poll loop if and
\* only if it carries a payload whose status is completed, failed or error;
\* any other status, a missing status or a missing payload leaves it RUNNING.
C2_StatusPredicate ==
    [][ (pc = "awaitStatus" /\ variant = "stream" /\ status' # EmptyObject)
          => LET terminal == /\ "data" \in DOMAIN status'
                             /\ TerminalStatus(ObjectOf(status'["data"]))
             IN  /\ (pc' = "pollDone") <=> terminal
                 /\ (pc' = "sleeping") <=> ~terminal ]_vars

\* C2 witness: a streaming run whose second status query reported "error"
C2_Witness ==
    /\ variant = "stream"
    /\ pc = "pollDone"
    /\ StatusQueries(i) = 2
    /\ Get(finalResult, "status") = JStr("error")

\* C3: a status query is issued only from the top of a poll iteration that
\* found the deadline not passed, and never for an item that has ended (so
\* never after its Timeout); a query in flight is never cut short by the
\* deadline: its response is processed, and ends the loop in DONE when it
\* satisfies the completion predicate, also when it arrives after the deadline.
C3_DeadlineAtIterationTop ==
    [][ /\ Issues("status") =>
              /\ pc = "pollTop"
              /\ Elapsed <= TimeoutMs
              /\ err = NoError
              /\ requests'[Len(requests')].item = i
              /\ \A k \in 1..Len(history) : history[k].item # i
        /\ err.kind = "Timeout" => requests' = requests
        /\ pc = "awaitStatus" =>
              /\ err'.kind # "Timeout"
              /\ ("data" \in DOMAIN status' /\
                  IF variant = "stream"
                  THEN TerminalStatus(ObjectOf(status'["data"]))
                  ELSE NonEmptyResult(ObjectOf(status'["data"])))
                    => pc' = "pollDone" ]_vars

\* C3 witness: a response that arrived after the deadline ended the loop in DONE
C3_Witness ==
    /\ pc = "pollDone"
    /\ Elapsed > TimeoutMs
\* the C4 scenario: polling interval 1s, timeout 2s
IntervalOneTimeoutTwo == pollingInterval = 1 /\ timeout = 2

\* the poll loop of the current item is running
Polling == pc \in {"pollTop", "awaitStatus", "sleeping"}

\* C4 (as stated): with interval 1s and timeout 2s the Timeout is raised no
\* earlier than 2s and no later than 2s plus one polling interval after
\* polling started.
C4_Original ==
    (IntervalOneTimeoutTwo /\ pc = "catch" /\ err.kind = "Timeout")
        => /\ Elapsed >= 2 * MsPerSec
           /\ Elapsed <= 2 * MsPerSec + 1 * MsPerSec

\* C4 (amended): with interval 1s and timeout 2s, as long as no status
\* response completes the poller keeps polling and can leave the loop past
\* the deadline only by raising Timeout; the Timeout is raised no earlier than
\* 2s and no later than 2s plus one polling interval plus the duration of the
\* last status query after polling started.
C4_TimeoutWindow ==
    [][ IntervalOneTimeoutTwo =>
          /\ (pc' = "catch" /\ err'.kind = "Timeout")
                => /\ Elapsed' >= 2 * MsPerSec
                   /\ Elapsed' <= 2 * MsPerSec + 1 * MsPerSec + lastQueryMs'
          /\ Polling' => Elapsed' <= 2 * MsPerSec + 1 * MsPerSec + lastQueryMs'
          /\ (pc = "pollTop" /\ Elapsed > 2 * MsPerSec)
                => (pc' = "catch" /\ err'.kind = "Timeout")
          /\ (pc = "pollTop" /\ Elapsed <= 2 * MsPerSec) => pc' = "awaitStatus"
          /\ pc = "sleeping" => pc' = "pollTop" ]_vars

\* C4 witness: with interval 1s and timeout 2s a Timeout raised later than
\* 2s plus one interval, after status queries that took time
C4_Witness ==
    /\ IntervalOneTimeoutTwo
    /\ pc = "catch"
    /\ err.kind = "Timeout"
    /\ Elapsed > 2 * MsPerSec + 1 * MsPerSec
    /\ StatusQueries(i) >= 2

\* the list-files and download requests issued so far for the current item
Lists == RequestsOf(i, "list")
Downloads == RequestsOf(i, "download")

\* the name the k-th entry of the out collection carries
ListedName(k) == outFiles[k]["fileName"][2]

\* C5: downloadAll issues one list-files call, then one download per entry of
\* the out collection, each only after the one before has returned and in
\* listing order; downloadAll finishes only when every entry is downloaded;
\* when a download fails no further request is issued for the item and the
\* failure reaches the caller: the item yields an error record or the run
\* ends in the error, never a record with a partial list of files.
C5_DownloadAllSequence ==
    [][ /\ Issues("list") =>
              /\ pc = "pollDone"
              /\ Lists = <<>> /\ Downloads = <<>>
        /\ Issues("download") =>
              /\ pc \in {"awaitList", "awaitDownload"}
              /\ Len(Lists) = 1
              /\ Len(Downloads) = Len(downloadedFiles')
              /\ Len(Downloads') <= Len(outFiles')
              /\ requests'[Len(requests')].item = i
              /\ requests'[Len(requests')].id = executionId
        /\ Polling' \/ pc' = "pollDone" => Lists' = <<>> /\ Downloads' = <<>>
        /\ pc' \in {"awaitDownload", "filesDone"} =>
              /\ Len(Lists') = 1
              /\ \A k \in 1..Len(Downloads') : Downloads'[k].file = ListedName(k)'
              /\ \A k \in 1..Len(downloadedFiles') :
                    downloadedFiles'[k].fileName = ListedName(k)'
        /\ pc' = "awaitDownload" => Len(Downloads') = Len(downloadedFiles') + 1
        /\ pc' = "filesDone" =>
              /\ Len(Downloads') = Len(outFiles')
              /\ Len(downloadedFiles') = Len(outFiles')
        /\ (pc = "awaitDownload" /\ pc' = "catch") =>
              /\ err' = TransportError("download")
              /\ requests' = requests
        /\ (pc = "catch" /\ err = TransportError("download")) =>
              /\ requests' = requests
              /\ \/ pc' = "thrown" /\ returnData' = returnData
                 \/ /\ pc' = "loop"
                    /\ Len(returnData') = Len(returnData) + 1
                    /\ DOMAIN returnData'[Len(returnData')].json = {"error"} ]_vars

\* C5 witness: of two listed files the first was downloaded and the download
\* of the second failed
C5_Witness ==
    /\ pc = "catch"
    /\ err = TransportError("download")
    /\ Len(outFiles) = 2
    /\ Len(downloadedFiles) = 1
    /\ Len(Downloads) = 2
    /\ ListedName(1) # ListedName(2)
\* the binary slots of an output record
SlotsOf(record) ==
    IF record.binary = Undefined THEN EmptyObject ELSE record.binary[2]

\* the slot the claim names for the k-th of n downloads (k from 1)
SlotName(n, k) ==
    IF n = 1 THEN "data" ELSE <<"data0", "data1", "data2", "data3">>[k]

\* C6: when the out collection has n entries, the record pushed after
\* downloadAll was preceded by exactly n downloads and has exactly n distinct
\* binary slots, `data` if n = 1 and `data0` .. `data(n-1)` if n > 1, the k-th
\* slot holding the k-th download, also when the file names repeat.
C6_OneSlotPerDownload ==
    [][ (pc = "filesDone" /\ pc' = "loop") =>
          LET n == Len(outFiles)
              slots == SlotsOf(returnData'[Len(returnData')])
          IN  /\ Len(Downloads) = n
              /\ Cardinality(DOMAIN slots) = n
              /\ DOMAIN slots = {SlotName(n, k) : k \in 1..n}
              /\ \A k \in 1..n :
                    /\ slots[SlotName(n, k)].fileName = Downloads[k].file
                    /\ slots[SlotName(n, k)].fileName = ListedName(k)
                    /\ slots[SlotName(n, k)].data
                          = FileBytes(Downloads[k].id, Downloads[k].file) ]_vars

\* C6 witness: two listed files both named a.pdf gave a record with the two
\* slots data0 and data1
C6_Witness ==
    /\ pc = "loop"
    /\ Len(returnData) = 1
    /\ Len(RequestsOf(0, "download")) = 2
    /\ RequestsOf(0, "download")[1].file = <<"a", ".", "p", "d", "f">>
    /\ RequestsOf(0, "download")[2].file = <<"a", ".", "p", "d", "f">>
    /\ DOMAIN SlotsOf(returnData[1]) = {"data0", "data1"}
\* the {error: message} record of an error
IsErrorRecord(record, e) == record.json = [error |-> JStr(e.message)]

\* C7: with continue-on-fail enabled a failure of item i, whatever its kind,
\* adds the record {error: message} for item i and moves on to item i+1; the
\* run never ends in an error, and the k-th output record belongs to the k-th
\* input item: the error record of its failure if it failed, its normal
\* record otherwise.
C7_ContinueOnFail ==
    [][ continueOnFail =>
          /\ pc' # "thrown"
          /\ pc = "catch" =>
                /\ err # NoError
                /\ Len(returnData') = Len(returnData) + 1
                /\ IsErrorRecord(returnData'[Len(returnData')], err)
                /\ SubSeq(returnData', 1, Len(returnData)) = returnData
                /\ i' = i + 1
                /\ pc' = "loop"
          /\ Len(returnData') = Len(history')
          /\ pc' = "loop" => Len(returnData') = i'
          /\ \A k \in 1..Len(history') :
                /\ history'[k].item = k - 1
                /\ IF history'[k].err = NoError
                   THEN "error" \notin DOMAIN returnData'[k].json
                   ELSE IsErrorRecord(returnData'[k], history'[k].err) ]_vars

\* C7 witness: of two items the first failed at its submit and the second
\* ran normally; the run returned the error record, then the normal record
C7_Witness ==
    /\ continueOnFail
    /\ nItems = 2
    /\ pc = "returned"
    /\ operation = "runWorker"
    /\ history[1].err = TransportError("submit")
    /\ history[2].err = NoError
    /\ IsErrorRecord(returnData[1], TransportError("submit"))
    /\ "executionId" \in DOMAIN returnData[2].json
    /\ Len(RequestsOf(1, "status")) >= 1

\* C8: with continue-on-fail disabled the first failure ends the run in that
\* error at once: nothing happens after it, so no request is issued for a
\* later item and no further record is produced; the records produced are
\* those of the items that came before.
C8_FirstFailureAborts ==
    [][ ~continueOnFail =>
          /\ pc # "thrown"
          /\ pc = "catch" =>
                /\ pc' = "thrown"
                /\ requests' = requests
                /\ returnData' = returnData
                /\ err' = err /\ err # NoError
                /\ i' = i
          /\ pc' \in {"catch", "thrown"} =>
                /\ Len(returnData') = i'
                /\ \A k \in 1..Len(requests') : requests'[k].item <= i'
                /\ \A k \in 1..Len(returnData') :
                      "error" \notin DOMAIN returnData'[k].json ]_vars

\* C8 witness: the first of two items failed and the run ended in the error
\* with no record and no request for the second item
C8_Witness ==
    /\ ~continueOnFail
    /\ nItems = 2
    /\ pc = "thrown"
    /\ i = 0
    /\ err # NoError
    /\ returnData = <<>>
    /\ RequestsOf(1, "submit") = <<>>
\* the kinds of the requests issued so far, in order
RequestKinds == [k \in 1..Len(requests) |-> requests[k].kind]

\* the record the end-to-end scenario expects
ScenarioRecord ==
    [json   |-> [id          |-> JStr("E1"),
                 result      |-> JStr("done"),
                 executionId |-> JStr("E1"),
                 outputFiles |-> JArr(<<>>)],
     binary |-> Undefined]

\* C9: Run Worker with auto-download off, the first status response carrying
\* result null and the next {id: "E1", result: "done"}: no list-files or
\* download call is ever made, the first response never ends the poll, and
\* once the second response has arrived the run has issued the submit and
\* exactly two status queries for E1 and its record is {id: "E1",
\* result: "done", executionId: "E1", outputFiles: []} with no binary.
C9_EndToEnd ==
    /\ \A k \in 1..Len(requests) :
          /\ requests[k].kind \in {"submit", "status"}
          /\ requests[k].kind = "status" => requests[k].id = "E1"
    /\ StatusQueries(0) <= 2
    /\ pc = "pollDone" =>
          /\ StatusQueries(0) = 2
          /\ finalResult = [id |-> JStr("E1"), result |-> JStr("done")]
    /\ Len(returnData) <= 1
    /\ \A k \in 1..Len(history) :
          IF history[k].err = NoError
          THEN /\ RequestKinds = <<"submit", "status", "status">>
               /\ returnData = <<ScenarioRecord>>
          ELSE /\ history[k].err.kind = "Timeout"
               /\ StatusQueries(0) = 1

\* C9 witness: the scenario ran to its end after two status queries
C9_Witness ==
    /\ pc = "returned"
    /\ Len(returnData) = 1
    /\ Get(returnData[1].json, "result") = JStr("done")
    /\ StatusQueries(0) = 2
    /\ ~autoDownloadFiles
\* C10: the submit, status, list-files and download URLs derived from root,
\* root + "/", root + "/run" and root + "/run/" are the same: any two forms of
\* the worker URL resolve every endpoint to the same URL.
C10_ResolveIgnoresRunSuffix ==
    \A p \in DOMAIN resolved, q \in DOMAIN resolved :
        p[2] = q[2] => resolved[p] = resolved[q]

\* the table the claim names, and what it says of a file name: the type of
\* its extension (what follows the last dot, in lower case) when the table
\* has it, application/octet-stream when it has not or there is no dot
HasDot(fileName) == \E k \in 1..Len(fileName) : fileName[k] = "."
ClaimedMimeType(fileName) ==
    LET extension == ToLowerCase(LastSegment(fileName))
    IN  IF HasDot(fileName) /\ extension \in DOMAIN MimeTypes
        THEN MimeTypes[extension]
        ELSE "application/octet-stream"

\* C11: getMimeType returns the table's type for the file name's extension,
\* matched case-insensitively, and application/octet-stream for every file
\* name whose extension is not in the table or that has no extension.
C11_MimeTypeByExtension ==
    mResult # "" => mResult = ClaimedMimeType(mFileName)

\* this step issues a request; the request issued
IssuesRequest == Len(requests') > Len(requests)
Issued == requests'[Len(requests')]

\* when the submit of an item went out
SubmittedAt(item) == RequestsOf(item, "submit")[1].at

\* C12: items are processed one after another: a request is issued only for
\* the item at the loop index, when every earlier item has ended (its record
\* pushed or its failure caught) and no later item has issued anything; the
\* sleeps of an item delay the next: its submit goes out no earlier than
\* the sleeps between the earlier item's status queries allow.
C12_ItemsInSequence ==
    [][ IssuesRequest =>
          /\ Len(requests') = Len(requests) + 1
          /\ Issued.item = i
          /\ Len(history) = i
          /\ \A k \in 1..Len(history) : history[k].item = k - 1
          /\ \A k \in 1..Len(requests) :
                /\ requests[k].item <= i
                /\ requests[k].at <= Issued.at
          /\ (Issued.kind = "submit" /\ i > 0 /\ StatusQueries(i - 1) > 0) =>
                Issued.at >= SubmittedAt(i - 1)
                    + (StatusQueries(i - 1) - 1) * pollingInterval * MsPerSec ]_vars

\* C12 witness: the first item slept between two status queries and the
\* second item's submit went out after that sleep
C12_Witness ==
    /\ nItems = 2
    /\ pc = "returned"
    /\ StatusQueries(0) = 2
    /\ SubmittedAt(1) >= pollingInterval * MsPerSec
    /\ StatusQueries(1) >= 1
\* the poller of the current item has reached DONE: it holds a payload that
\* satisfies the completion predicate of its revision
PollerDone ==
    IF variant = "stream" THEN TerminalStatus(finalResult)
    ELSE NonEmptyResult(finalResult)

\* the place of a request kind in the order Submit, status, list, download
KindRank(kind) ==
    CASE kind = "submit" -> 1 [] kind = "status" -> 2
      [] kind = "list" -> 3 [] kind = "download" -> 4

\* C13: within an item of a synchronous run the requests go out in the order
\* submit, status queries, list-files, downloads: the submit is the item's
\* first request; a status query is issued only after the submit response
\* has been received and before any list-files call; list-files and
\* downloads are issued only after the poller has reached DONE, and nothing
\* is issued after the Timeout.
C13_RequestOrder ==
    [][ IssuesRequest =>
          /\ \A k \in 1..Len(requests) :
                requests[k].item = i => KindRank(requests[k].kind) <= KindRank(Issued.kind)
          /\ Issued.kind = "submit" =>
                \A k \in 1..Len(requests) : requests[k].item # i
          /\ Issued.kind = "status" =>
                /\ Len(RequestsOf(i, "submit")) = 1
                /\ pc # "awaitSubmit"
                /\ executionId # ""
                /\ Issued.id = executionId
          /\ Issued.kind \in {"list", "download"} =>
                /\ operation = "runWorker"
                /\ StatusQueries(i) >= 1
                /\ PollerDone
                /\ err = NoError
          /\ err.kind # "Timeout" ]_vars

\* C13 witness: an item issued its submit, two status queries, the
\* list-files call and a download, in that order
C13_Witness ==
    /\ Len(requests) = 5
    /\ RequestKinds = <<"submit", "status", "status", "list", "download">>
    /\ pc = "awaitDownload"
\* the terminal payload reports a failed or error execution
ReportsFailure(payload) ==
    /\ "status" \in DOMAIN payload
    /\ \/ payload["status"] = JStr("failed")
       \/ payload["status"] = JStr("error")

\* C14: once the poller is DONE the files are listed (and then downloaded)
\* if and only if auto-download was requested and the terminal payload does
\* not report a failed or error execution; otherwise the record is pushed
\* with no downloaded files and no list-files or download call is made.
C14_DownloadOnlyOnSuccess ==
    [][ /\ pc = "pollDone" =>
              IF autoDownloadFiles /\ ~ReportsFailure(finalResult)
              THEN Issues("list")
              ELSE /\ requests' = requests
                   /\ Len(returnData') = Len(returnData) + 1
                   /\ returnData'[Len(returnData')].json["outputFiles"] = JArr(<<>>)
        /\ (IssuesRequest /\ Issued.kind \in {"list", "download"}) =>
              autoDownloadFiles /\ ~ReportsFailure(finalResult) ]_vars
Succeeded(k) == Cardinality({m \in 1..k : history[m].err = NoError})

\* C16: Run Worker (Async) issues nothing but submits, at most one per item
\* and exactly one for an item that has ended; it never enters the poll loop
\* or the retrieval and never sleeps (with instant requests the clock
\* stands still); the record of an item is the submit response itself.
C16_AsyncSubmitsOnly ==
    operation = "runWorkerAsync" =>
        /\ \A k \in 1..Len(requests) : requests[k].kind = "submit"
        /\ \A item \in 0..(nItems - 1) : Len(RequestsOf(item, "submit")) <= 1
        /\ \A k \in 1..Len(history) : Len(RequestsOf(history[k].item, "submit")) = 1
        /\ pc \in {"loop", "awaitSubmit", "catch", "returned", "thrown"}
        /\ now = 0
        /\ stepsOutput = <<>>
        /\ \A k \in 1..Len(history) :
              history[k].err = NoError =>
                  returnData[k] = [json |-> [status |-> JStr("success"),
                                             data |-> JStr(ExecutionIdOf(Succeeded(k)))]]

\* C16 witness: an asynchronous run over two items returned two submit
\* responses after two requests
C16_Witness ==
    /\ operation = "runWorkerAsync"
    /\ nItems = 2
    /\ pc = "returned"
    /\ Len(requests) = 2
    /\ Len(returnData) = 2
    /\ returnData[2].json["data"] = JStr("E2")
\* the execution id the remote service issued to an item: the id its status
\* queries carry
HandleOf(item) == RequestsOf(item, "status")[1].id

\* C17: when execute returns normally its output holds exactly one record
\* per input item, the k-th record being the one of the k-th item: the error
\* record of its failure (only with continue-on-fail), else its normal
\* record, which for Run Worker names the item's own execution.
C17_OneRecordPerItem ==
    pc = "returned" =>
        /\ Len(returnData) = nItems
        /\ Len(history) = nItems
        /\ \A k \in 1..nItems :
              /\ history[k].item = k - 1
              /\ IF history[k].err # NoError
                 THEN continueOnFail /\ IsErrorRecord(returnData[k], history[k].err)
                 ELSE /\ "error" \notin DOMAIN returnData[k].json
                      /\ operation = "runWorker" =>
                            returnData[k].json["executionId"] = JStr(HandleOf(k - 1))
              /\ variant # "stream" /\ history[k].err # NoError =>
                    returnData[k].pairedItem = [item |-> k - 1]

\* C17 witness: a run over two items returned a normal record for the first
\* and the error record of the second
C17_Witness ==
    /\ pc = "returned"
    /\ nItems = 2
    /\ operation = "runWorker"
    /\ history[1].err = NoError
    /\ history[2].err = TransportError("status")
    /\ Len(returnData) = 2
    /\ "executionId" \in DOMAIN returnData[1].json

\* C18 (as stated): when the streaming run returns, the Steps stream holds
\* exactly one record per status query issued and the Final Result stream
\* one record per item.
C18_Original ==
    (variant = "stream" /\ pc = "returned") =>
        /\ Len(stepsOutput) = Len(SelectSeq(requests, LAMBDA r : r.kind = "status"))
        /\ Len(returnData) = nItems

\* C18 (amended): in the streaming variant the Steps stream grows by
\* exactly one record each time a status query is answered, and at no other
\* time: a query that fails, or is still in flight, has no record; the
\* record is tagged with the execution id the query carried, which is the
\* item's, and is stamped no earlier than the query went out, so the stream
\* is in query order; when the run returns the Final Result stream holds
\* exactly one record per item.
C18_StepPerAnsweredQuery ==
    [][ variant = "stream" =>
          LET query == requests[Len(requests)]
              answered == pc = "awaitStatus" /\ pc' \notin {"awaitStatus", "catch"}
          IN  /\ answered =>
                    /\ query.kind = "status"
                    /\ query.item = i
                    /\ Len(stepsOutput') = Len(stepsOutput) + 1
                    /\ SubSeq(stepsOutput', 1, Len(stepsOutput)) = stepsOutput
                    /\ stepsOutput'[Len(stepsOutput')].json["executionId"] = JStr(query.id)
                    /\ query.id = executionId
                    /\ stepsOutput'[Len(stepsOutput')].json["timestamp"] >= query.at
                    /\ stepsOutput'[Len(stepsOutput')].json["timestamp"] = now'
                    /\ requests' = requests
              /\ ~answered => stepsOutput' = stepsOutput
              /\ pc' = "returned" => Len(returnData') = nItems ]_vars

\* C18 witness: a streaming run returned after a status query of its second
\* item failed: the Steps stream has a record less than queries were issued
C18_Witness ==
    /\ variant = "stream"
    /\ pc = "returned"
    /\ nItems = 2
    /\ StatusQueries(0) = 2
    /\ history[2].err = TransportError("status")
    /\ Len(stepsOutput) = StatusQueries(0) + StatusQueries(1) - 1
    /\ Len(stepsOutput) >= 3
    /\ Len(returnData) = 2

\* an item that has ended issued one submit and one list-files request at
\* most, and nothing after the request it ended on
EndedItemsQuiet ==
    \A k \in 1..Len(history) :
        /\ \A n \in 1..Len(requests) :
              requests[n].item = history[k].item => n <= history[k].reqs
        /\ Len(RequestsOf(history[k].item, "submit")) <= 1
        /\ Len(RequestsOf(history[k].item, "list")) <= 1

\* C19: no request is retried: a request goes out only from the step of
\* the pipeline that calls for it (the submit at the start of the item, a
\* status query at the top of a poll iteration, list-files when the poller
\* is DONE, a download after the list or after the download before it has
\* succeeded), never in answer to a failure; the failure of a request ends
\* the item at once: its error is caught, the item ends with that error and
\* the failed request stays the item's last one.
C19_NoRetry ==
    [][ /\ IssuesRequest =>
              /\ err = NoError /\ err' = NoError
              /\ Issued.kind = "submit" => pc = "loop"
              /\ Issued.kind = "status" => pc = "pollTop"
              /\ Issued.kind = "list" => pc = "pollDone"
              /\ Issued.kind = "download" =>
                    \/ pc = "awaitList"
                    \/ /\ pc = "awaitDownload"
                       /\ Len(downloadedFiles') = Len(downloadedFiles) + 1
        /\ err'.kind = "TransportError" =>
              /\ requests' = requests
              /\ pc' \in {"catch", "thrown"}
              /\ requests[Len(requests)].item = i
              /\ err'.message = <<"request failed", requests[Len(requests)].kind>>
        /\ pc = "catch" =>
              /\ requests' = requests
              /\ history' = Append(history,
                               [item |-> i, err |-> err, reqs |-> Len(requests)])
        /\ EndedItemsQuiet' ]_vars

\* C19 witness: the first item's download failed after one request of each
\* kind, and the run went on to the second item without repeating any
C19_Witness ==
    /\ nItems = 2
    /\ i = 1
    /\ pc = "awaitSubmit"
    /\ history[1].err = TransportError("download")
    /\ Len(RequestsOf(0, "submit")) = 1
    /\ Len(RequestsOf(0, "list")) = 1
    /\ Len(RequestsOf(0, "download")) = 1
\* C20: in a synchronous run the handle an item's submit returns is a new
\* one, no request made so far carries it; it stays the item's handle until
\* the item ends; every status, list-files and download request is made for
\* the item at the loop index and carries that handle, which among the
\* requests made before it is carried by those of the same item and by no
\* request of another item.
C20_HandlePerItem ==
    [][ operation = "runWorker" =>
          /\ (pc = "awaitSubmit" /\ pc' = "pollTop") =>
                /\ i' = i
                /\ executionId' # ""
                /\ \A n \in 1..Len(requests) : requests[n].id # executionId'
          /\ (pc \notin {"loop", "awaitSubmit"} /\ i' = i) =>
                executionId' = executionId
          /\ (IssuesRequest /\ Issued.kind # "submit") =>
                /\ Issued.item = i
                /\ Issued.id = executionId
                /\ executionId # ""
                /\ \A n \in 1..Len(requests) :
                      requests[n].kind # "submit" =>
                          (requests[n].item = Issued.item
                              <=> requests[n].id = Issued.id) ]_vars

\* C20 witness: a run of two items has returned, each item was polled and
\* its file listed and downloaded, the first under the handle E1 and the
\* second under E2
C20_Witness ==
    /\ nItems = 2
    /\ pc = "returned"
    /\ \A kind \in {"status", "list", "download"} :
          /\ RequestsOf(0, kind) # <<>>
          /\ RequestsOf(1, kind) # <<>>
          /\ RequestsOf(0, kind)[1].id = "E1"
          /\ RequestsOf(1, kind)[1].id = "E2"

\* an item that ended on an unresolved attachment has issued no request
NoRequestForUnattached ==
    \A k \in 1..Len(history) :
        history[k].err.kind = "AttachmentNotFound" =>
            \A n \in 1..Len(requests) : requests[n].item # history[k].item

\* C21: the attachment-not-found error is raised by the submit step before
\* it sends anything: it arises at the start of the item, when no request
\* has been made for the item, the step that raises it sends none, and none
\* is sent while the error is in flight; the item ends with that error, and
\* an item that ended so has no submit, status, list-files or download
\* request at all.
C21_AttachmentBeforeRequest ==
    [][ /\ (err.kind # "AttachmentNotFound" /\ err'.kind = "AttachmentNotFound") =>
              /\ pc = "loop"
              /\ pc' = "catch"
              /\ requests' = requests
              /\ now' = now
              /\ \A n \in 1..Len(requests) : requests[n].item # i
        /\ err.kind = "AttachmentNotFound" =>
              /\ pc = "catch"
              /\ requests' = requests
              /\ history' = Append(history,
                               [item |-> i, err |-> err, reqs |-> Len(requests)])
        /\ NoRequestForUnattached' ]_vars

\* C21 witness: a run over one item, whose Files parameter named a property
\* the item does not have, has returned under continue-on-fail with the
\* error record and without a single request
C21_Witness ==
    /\ pc = "returned"
    /\ nItems = 1
    /\ Len(history) = 1
    /\ history[1].err = AttachmentNotFound("doc")
    /\ requests = <<>>
    /\ Len(returnData) = 1

\* C22: a response that leaves the poller RUNNING is followed by one sleep
\* of exactly the polling interval, and the next status query goes out the
\* moment the sleep ends: it is issued exactly one polling interval after
\* the response to the query before it arrived; a response that satisfies
\* the completion predicate is followed by no sleep: the clock stands still
\* from DONE to the list-files request or the push of the item's record.
C22_SleepsOnlyWhileRunning ==
    [][ /\ pc = "sleeping" =>
              /\ now' = now + pollingInterval * MsPerSec
              /\ pc' = "pollTop"
              /\ requests' = requests
        /\ (pc = "awaitStatus" /\ pc' \in {"sleeping", "pollDone"}) =>
              /\ now' = requests[Len(requests)].at + lastQueryMs'
              /\ requests' = requests
        /\ pc = "pollTop" => now' = now
        /\ (Issues("status") /\ StatusQueries(i) >= 1) =>
              now = RequestsOf(i, "status")[StatusQueries(i)].at + lastQueryMs
                        + pollingInterval * MsPerSec
        /\ pc = "pollDone" =>
              /\ now' = now
              /\ pc' \in {"awaitList", "loop"}
              /\ pc' = "awaitList" => requests'[Len(requests')].at = now ]_vars

\* C22 witness: with an interval of one second and queries that take one,
\* the first query (sent at 0) left the poller running until 1 s, the second
\* went out at 2 s and its response ended the loop at 3 s
C22_Witness ==
    /\ pc = "pollDone"
    /\ pollingInterval = 1
    /\ startTime = 0
    /\ StatusQueries(i) = 2
    /\ RequestsOf(i, "status")[1].at = 0
    /\ RequestsOf(i, "status")[2].at = 2 * MsPerSec
    /\ now = 3 * MsPerSec

\* C23: the poll clock starts when the submit call has returned the
\* execution id and runs untouched until the item ends; at the top of each
\* poll iteration the time elapsed on it is compared with the configured
\* timeout: if it exceeds the timeout the poller raises Timeout without a
\* further query, the error naming the configured number of seconds, and
\* otherwise it issues the next status query; so Timeout is raised at the
\* first iteration top past the deadline, every query of the item having
\* gone out within it.
C23_DeadlineFromSubmission ==
    [][ /\ (pc = "awaitSubmit" /\ pc' = "pollTop") => startTime' = now'
        /\ pc \in {"pollTop", "awaitStatus", "sleeping"} => startTime' = startTime
        /\ pc = "pollTop" =>
              IF now - startTime > timeout * MsPerSec
              THEN /\ pc' = "catch"
                   /\ err'.kind = "Timeout"
                   /\ err'.message[2] = timeout
                   /\ err'.message[3] = "seconds"
                   /\ requests' = requests
              ELSE /\ Issues("status")
                   /\ err' = NoError
        /\ (err.kind # "Timeout" /\ err'.kind = "Timeout") =>
              /\ pc = "pollTop"
              /\ \A n \in 1..Len(requests) :
                    (requests[n].item = i /\ requests[n].kind = "status") =>
                        requests[n].at - startTime <= timeout * MsPerSec ]_vars

\* C23 witness: the submit took a second, so that the poll clock started at
\* 1 s; with a timeout of one second the iteration top at 2 s still queried
\* and the Timeout was raised at the top after it
C23_Witness ==
    /\ pc = "catch"
    /\ err.kind = "Timeout"
    /\ timeout = 1
    /\ pollingInterval = 1
    /\ RequestsOf(i, "submit")[1].at = 0
    /\ startTime = 1 * MsPerSec
    /\ StatusQueries(i) = 2
    /\ RequestsOf(i, "status")[2].at = 2 * MsPerSec
    /\ now = 3 * MsPerSec
\* this step pushes the record of an item that finished without an error
PushesFinalRecord ==
    /\ operation = "runWorker"
    /\ pc \in {"pollDone", "filesDone"}
    /\ Len(returnData') = Len(returnData) + 1

\* the record this step pushes
Pushed == returnData'[Len(returnData')]

\* C24: the final record of a synchronous run holds every field of the
\* terminal status payload under the field's own name and with the field's
\* own value, and the added executionId and outputFiles fields next to them.
C24_PayloadPassedThrough ==
    [][ PushesFinalRecord =>
          /\ \A f \in DOMAIN finalResult :
                /\ f \in DOMAIN Pushed.json
                /\ Pushed.json[f] = finalResult[f]
          /\ "executionId" \in DOMAIN Pushed.json
          /\ "outputFiles" \in DOMAIN Pushed.json ]_vars
\* C25: downloadAll takes no entry from a list-files payload whose out
\* collection is null or left out; the response that yields no entry ends
\* the retrieval at once, with no error, no download request and nothing
\* downloaded, and the record then pushed for the item is a normal one
\* whose outputFiles is the empty list.
C25_NoFilesWithoutOut ==
    [][ /\ OutFilesOf([out |-> JNull]) = <<>>
        /\ OutFilesOf(EmptyObject) = <<>>
        /\ (pc = "awaitList" /\ pc' # "catch" /\ outFiles' = <<>>) =>
              /\ pc' = "filesDone"
              /\ err' = NoError
              /\ requests' = requests
              /\ downloadedFiles' = <<>>
        /\ (pc = "filesDone" /\ outFiles = <<>>) =>
              /\ RequestsOf(i, "download") = <<>>
              /\ Len(returnData') = Len(returnData) + 1
              /\ returnData'[Len(returnData')].json["outputFiles"] = JArr(<<>>)
              /\ "error" \notin DOMAIN returnData'[Len(returnData')].json
              /\ requests' = requests ]_vars

\* C25 witness: a run with auto-download over two items returned; the list
\* of the first item's files came without entries: one list-files request,
\* no download, a record with outputFiles = []
C25_Witness ==
    /\ pc = "returned"
    /\ autoDownloadFiles
    /\ nItems = 2
    /\ Len(RequestsOf(0, "list")) = 1
    /\ RequestsOf(0, "download") = <<>>
    /\ history[1].err = NoError
    /\ returnData[1].json["outputFiles"] = JArr(<<>>)
    /\ Len(RequestsOf(1, "download")) = MaxFiles
\* the worker URL without its last character when that is a slash
LessOneSlash(url) ==
    IF url # <<>> /\ url[Len(url)] = "/" THEN SubSeq(url, 1, Len(url) - 1) ELSE url

\* whether the last four characters of s are /run
HasRunSuffix(s) ==
    /\ Len(s) >= 4
    /\ s[Len(s) - 3] = "/" /\ s[Len(s) - 2] = "r"
    /\ s[Len(s) - 1] = "u" /\ s[Len(s)] = "n"

\* the root and the four endpoints the claim gives for a worker URL
ClaimedRoot(url) ==
    LET s == LessOneSlash(url)
    IN  IF HasRunSuffix(s) THEN SubSeq(s, 1, Len(s) - 4) ELSE s
ClaimedUrl(url, endpoint, id, fileName) ==
    LET s == LessOneSlash(url)
        root == ClaimedRoot(url)
    IN  CASE endpoint = 1 -> IF HasRunSuffix(s) THEN s ELSE s \o <<"/", "r", "u", "n">>
          [] endpoint = 2 -> root \o <<"/", "r", "u", "n", "/", id>>
          [] endpoint = 3 -> root \o <<"/", "r", "u", "n", "/", id, "/", "f", "i", "l", "e", "s">>
          [] endpoint = 4 -> root \o <<"/", "r", "u", "n", "/", id, "/", "f", "i", "l", "e", "s",
                                       "/", fileName>>

\* C26: the function revision with the /run endpoints resolves a worker URL
\* as the claim says: one trailing slash is stripped, no more; if what is
\* left, s, ends in /run the submit URL is s and the root is s without /run,
\* otherwise the submit URL is s/run and the root is s; the status URL is
\* root/run/id, the list-files URL root/run/id/files and the download URL
\* root/run/id/files/fileName.
C26_VariantAResolver ==
    uVariant = "legacy" =>
        \A p \in DOMAIN resolved :
            resolved[p] = ClaimedUrl(uRoot \o Forms[p[1]], p[2], uId, uFile)

\* C26 witness: a worker URL that ends in a slash was resolved in its four
\* forms; written with one more slash it keeps one (the submit URL has two
\* slashes before run), written with /run/ it resolves like the URL itself
C26_Witness ==
    /\ uVariant = "legacy"
    /\ Cardinality(DOMAIN resolved) = Len(Forms) * Len(EndpointNames)
    /\ uRoot = HttpScheme \o <<"a", "/">>
    /\ resolved[<<2, 1>>] = HttpScheme \o <<"a", "/", "/", "r", "u", "n">>
    /\ resolved[<<4, 2>>] = HttpScheme \o <<"a", "/", "/", "r", "u", "n", "/", uId>>
    /\ resolved[<<1, 2>>] = HttpScheme \o <<"a", "/", "r", "u", "n", "/", uId>>
\* C27: the poll clock of an item starts when the item's own submit
\* returns; a Timeout is raised for an item only when more than the
\* configured timeout has passed since the item's own submit went out (the
\* requests here are instant), however long the earlier items took, and
\* never before the item's first status query; while an item is polled
\* within its own deadline its next query goes out.
C27_DeadlinePerItem ==
    [][ /\ (pc = "awaitSubmit" /\ pc' = "pollTop") =>
              /\ startTime' = now'
              /\ startTime' = SubmittedAt(i)
        /\ (err.kind # "Timeout" /\ err'.kind = "Timeout") =>
              /\ now - SubmittedAt(i) > timeout * MsPerSec
              /\ StatusQueries(i) >= 1
              /\ requests[Len(requests)].item = i
        /\ (pc = "pollTop" /\ now - SubmittedAt(i) <= timeout * MsPerSec) =>
              /\ Issues("status")
              /\ err' = NoError ]_vars

\* C27 witness: under continue-on-fail the first item timed out after two
\* status queries; the second item, submitted after the first one's
\* deadline had passed, was polled twice as well before its own Timeout
C27_Witness ==
    /\ continueOnFail
    /\ nItems = 2
    /\ i = 1
    /\ pc = "catch"
    /\ err.kind = "Timeout"
    /\ history[1].err.kind = "Timeout"
    /\ timeout = 1
    /\ pollingInterval = 1
    /\ StatusQueries(0) = 2
    /\ StatusQueries(1) = 2
    /\ SubmittedAt(1) = 2 * MsPerSec
    /\ now = 4 * MsPerSec
\* C28: with instant answers, an item whose status queries never report
\* completion is queried exactly floor(timeout / pollingInterval) + 1 times
\* before its Timeout is raised: the queries go out at 0, P, 2P, ... seconds
\* on the item's clock, the one at exactly the timeout included, since at
\* an iteration top where the elapsed time equals the timeout the query is
\* still issued.
C28_QueriesBeforeTimeout ==
    [][ /\ (err.kind # "Timeout" /\ err'.kind = "Timeout") =>
              /\ StatusQueries(i) = (timeout \div pollingInterval) + 1
              /\ \A k \in 1..StatusQueries(i) :
                    RequestsOf(i, "status")[k].at
                        = startTime + (k - 1) * pollingInterval * MsPerSec
        /\ (pc = "pollTop" /\ now - startTime = timeout * MsPerSec) =>
              /\ Issues("status")
              /\ err' = NoError ]_vars

\* C28 witness: timeout 2 s, interval 1 s: the Timeout came after three
\* queries, the third sent when exactly two seconds had elapsed
C28_Witness ==
    /\ pc = "catch"
    /\ err.kind = "Timeout"
    /\ timeout = 2
    /\ pollingInterval = 1
    /\ StatusQueries(i) = 3
    /\ RequestsOf(i, "status")[3].at - startTime = 2 * MsPerSec
    /\ now - startTime = 3 * MsPerSec
\* C29: every poll loop terminates: from any state in which the poller is
\* RUNNING (at an iteration top, waiting for a status response or asleep)
\* the run reaches DONE, or the catch of the item with a Timeout or with the
\* error of a status query that failed or whose response could not be
\* read, whatever payloads the status endpoint answers.
C29_PollTerminates ==
    Polling ~> \/ pc = "pollDone"
               \/ pc = "catch" /\ err.kind \in {"Timeout", "TransportError", "TypeError"}

\* C29 witness: a poll loop that slept twice and queried three times has
\* ended in Timeout
C29_Witness ==
    /\ pc = "catch"
    /\ err.kind = "Timeout"
    /\ StatusQueries(i) = 3
    /\ ~autoDownloadFiles
    /\ lastQueryMs = 0
    /\ now - startTime > timeout * MsPerSec
\* C30: a status response without a data object leaves the streaming
\* poller RUNNING: no error, a step record whose status is the response as
\* it came, then the sleep, the next iteration top and from there the next
\* query or the Timeout; it ends the result-based poller at once: the item
\* goes to its catch with an error that is not the Timeout, no step record,
\* and no request is made while that error is in flight.
C30_ResponseWithoutData ==
    [][ /\ (pc = "awaitStatus" /\ status' # EmptyObject /\ "data" \notin DOMAIN status') =>
              IF variant = "stream"
              THEN /\ pc' = "sleeping"
                   /\ err' = NoError
                   /\ Len(stepsOutput') = Len(stepsOutput) + 1
                   /\ stepsOutput'[Len(stepsOutput')].json["status"] = JObj(status')
                   /\ stepsOutput'[Len(stepsOutput')].json["executionId"] = JStr(executionId)
                   /\ requests' = requests
              ELSE /\ pc' = "catch"
                   /\ err'.kind \notin {"none", "Timeout"}
                   /\ stepsOutput' = stepsOutput
                   /\ requests' = requests
        /\ (variant = "stream" /\ pc = "sleeping") => pc' = "pollTop"
        /\ (variant = "stream" /\ pc = "pollTop") =>
              \/ Issues("status")
              \/ pc' = "catch" /\ err'.kind = "Timeout"
        /\ err.kind = "TypeError" =>
              /\ pc = "catch"
              /\ requests' = requests
              /\ history' = Append(history,
                               [item |-> i, err |-> err, reqs |-> Len(requests)]) ]_vars

\* C30 witness: the first status response of a streaming run came without
\* data and was recorded as it came; the second one reported completion
C30_Witness ==
    /\ variant = "stream"
    /\ pc = "pollDone"
    /\ StatusQueries(i) = 2
    /\ Len(stepsOutput) = 2
    /\ stepsOutput[1].json["status"] = JObj(NoData)
    /\ Get(finalResult, "status") = JStr("completed")

====
